---- MODULE Spec2Model ----
(***************************************************************************)
(* Promise-based mutexes of mutex.js.                                      *)
(*                                                                         *)
(*   Mutex        the plain mutex: one promise chain (_currentLock).       *)
(*   makeVipMutex the mutex with a VIP queue: two promise chains (_lock,   *)
(*                _vipLock), a count of the requests on the normal chain   *)
(*                (_count) and an internal plain mutex (_mtx).             *)
(*                                                                         *)
(*   run, runVip  lock, run a task, release in a finally block; the demos  *)
(*                run sells (load the balance, add 50, save) through them. *)
(*                                                                         *)
(* A promise is modelled by a name; a set holds the names of the promises  *)
(* that are resolved.  A reaction registered with .then() or a function    *)
(* suspended at an await is a step that is enabled once the promise it     *)
(* waits for is resolved; the callers' own steps (lock, lockVip, calling a *)
(* key) may happen between any two such steps.                             *)
(***************************************************************************)
EXTENDS Integers, Sequences, FiniteSets, TLC

\* ---------------------------------------------------------------- bounds
MaxReq == 6        \* requests made to the VipMutex, at most
MaxSpecReq == 5    \* requests made by callers that are free to do anything
MaxKeyCalls == 2   \* calls of one key (2 = a key called twice)
MaxRepeat == 1     \* repeated key calls in one run, over all requests
MaxCallers == 7    \* callers of the plain Mutex
MaxUnlocks == 2    \* calls of one _unlock of the plain Mutex
MaxLiveReq == 4    \* requests where every holder releases in the end
MaxRunReq == 4     \* run()/runVip() calls on the VipMutex
MaxRunCallers == 3 \* run() calls on the plain Mutex
MaxSellReq == 4    \* sells through run()/runVip() of the VipMutex
MaxTwoReq == 3     \* requests to the VipMutex next to a plain Mutex
MaxTwoCallers == 2 \* callers of the plain Mutex next to a VipMutex
MaxUnsafeSells == 4 \* sells run without a mutex
MaxPriorityReq == 4 \* requests to the PriorityMutex of the README

Reqs == 1..MaxReq
Callers == 1..MaxCallers

\* ---------------------------------------------------------------- promises
\* the name of a promise: what it is, whose it is, which one of them
Promise(t, r, k) == [t |-> t, r |-> r, k |-> k]
\* Promise.resolve(): the already resolved head of a chain
Unlocked == Promise("resolved", 0, 0)
\* myLock of request r of the VipMutex
myLock(r) == Promise("myLock", r, 0)
\* the g-th promise made by _initVipLock
vipSentinel(g) == Promise("vipLock", 0, g)
\* newLock made by the call of _vipMutex.lock() of the PriorityMutex on
\* behalf of request r (k = 0: from lock(true), k > 0: from the k-th call
\* of r's _unlock)
vipMutexLock(r, k) == Promise("vipMutexLock", r, k)
\* newLock made by the k-th call of _mtx.lock() on behalf of request r
\* (k = 0: from lockVip, k > 0: from the k-th call of r's key)
newLock(r, k) == Promise("newLock", r, k)

VARIABLES
    \* ---- makeVipMutex
    _count,     \* let _count
    _lock,      \* let _lock: the last lock of the normal chain
    _vipLock,   \* let _vipLock: the last lock of the VIP chain
    _vipKey,    \* let _vipKey: the promise that calling _vipKey resolves
    _mtx,       \* let _mtx: the internal plain mutex
    nVipLocks,  \* how many promises _initVipLock has made
    resolved,   \* the resolved promises among the myLock's and sentinels
    nreq,       \* requests made so far; request i is the i-th one made
    kind,       \* kind[r]: "lock" or "lockVip" ("" before the call)
    st,         \* st[r]: "new", "mtx" (lockVip waits for _mtx), "line", "key"
    chain,      \* chain[r]: "normal" or "vip" once lined up ("" before)
    waitsFor,   \* waitsFor[r]: the promise r's pending .then()/await is on
    keyRuns,    \* keyRuns[r]: one record per call of r's key
    admitted,   \* the requests whose promise of a key has resolved, in order
    vipAtKey,   \* vipAtKey[r]: requests waiting on the VIP chain when r's
                \* key was first called
    atDrainOf,  \* atDrainOf[r], r made by lockVip: the request whose key was
                \* between _vipKey() and the end of await _vipLock when r was
                \* made (0: none)
    idleAtCall, \* idleAtCall[r], r made by lockVip: when r was made, every
                \* earlier request had been admitted and all the calls of
                \* its key had returned
    uncheckedAtKey, \* uncheckedAtKey[r]: the lockVip requests that waited for
                \* _mtx (line 168) when r's key was first called
    vipAtGuard, \* vipAtGuard[r]: the requests waiting on the VIP chain when
                \* the first call of r's key acquired _mtx (line 123)
    \* ---- plain Mutex
    mutex,      \* the state of one Mutex()
    ncallers,   \* lock() calls so far; caller i made the i-th one
    mst,        \* mst[c]: "new", "wait", "unlock" (holds its _unlock)
    mwaitsFor,  \* mwaitsFor[c]: the _currentLock c's .then() is on
    munlocks,   \* munlocks[c]: calls of c's _unlock
    madmitted,  \* callers whose promiseOfUnlock has resolved, in order
    \* ---- run()/runVip() of the VipMutex and the sell of the demo
    task,       \* task[r]: "" (r was not made by run/runVip), "run" (up to
                \* the end of the executor), "loaded" (the sell has loaded
                \* the balance), "finally" (the executor is over, the finally
                \* block is next), "fulfilled", "rejected"
    outcome,    \* outcome[r]: "returned" or "thrown" once r's executor is over
    loaded,     \* loaded[r]: const balance of r's sell
    balance,    \* let balance of the demo
    \* ---- run() of the plain Mutex and the sell of the demo
    mtask,      \* as task, for caller c of the plain Mutex
    moutcome,   \* as outcome
    mloaded,    \* as loaded
    mbalance    \* as balance

vipVars == <<_count, _lock, _vipLock, _vipKey, _mtx, nVipLocks, resolved,
             nreq, kind, st, chain, waitsFor, keyRuns, admitted, vipAtKey,
             atDrainOf, idleAtCall, uncheckedAtKey, vipAtGuard>>
mutexVars == <<mutex, ncallers, mst, mwaitsFor, munlocks, madmitted>>
runVars == <<task, outcome, loaded, balance>>
mrunVars == <<mtask, moutcome, mloaded, mbalance>>
vars == <<vipVars, mutexVars, runVars, mrunVars>>

\* ---------------------------------------------------------------- Mutex
\* function Mutex(): let _currentLock = Promise.resolve()
Mutex == [_currentLock |-> Unlocked, unlocked |-> {Unlocked}]

\* this.lock, lines 23-32: the new lock becomes _currentLock; the caller's
\* promiseOfUnlock is chained on the previous one (Mutex_waitOn)
\* (variant: promiseOfUnlock chained on the first, resolved promise)
Mutex_waitOn_first(m) == Unlocked
Mutex_waitOn(m) == m._currentLock
\* (variant: line 32 left out, _currentLock is never advanced)
Mutex_lock_stale(m, l) == m
Mutex_lock(m, l) == [m EXCEPT !._currentLock = l]

\* _unlock = () => resolve(): resolves the caller's own newLock
\* (variant: resolves whatever lock is _currentLock at the time of the call)
Mutex_unlock_current(m, l) == [m EXCEPT !.unlocked = @ \cup {l, m._currentLock}]
Mutex_unlock(m, l) == [m EXCEPT !.unlocked = @ \cup {l}]

\* is the promise p of mutex m resolved
\* (variant: the reaction does not wait for the promise)
Mutex_isUnlocked_any(m, p) == TRUE
Mutex_isUnlocked(m, p) == p \in m.unlocked


\* ---------------------------------------------------------------- makeVipMutex
\* (variant: no fresh promise is made, _vipLock and _vipKey stay as they are)
_initVipLock_keep == UNCHANGED <<nVipLocks, _vipLock, _vipKey>>

\* _initVipLock, lines 87-88: a fresh unresolved _vipLock whose resolve
\* function is _vipKey
_initVipLock ==
    /\ nVipLocks' = nVipLocks + 1
    /\ _vipLock' = vipSentinel(nVipLocks + 1)
    /\ _vipKey' = vipSentinel(nVipLocks + 1)

\* (variant: line 100 left out, _lock is never advanced)
_waitInLine_stale(r) ==
    /\ waitsFor' = [waitsFor EXCEPT ![r] = _lock]
    /\ _lock' = _lock
    /\ _count' = _count + 1
    /\ chain' = [chain EXCEPT ![r] = "normal"]

\* (variant: line 101 left out, _count is not incremented)
_waitInLine_noCount(r) ==
    /\ waitsFor' = [waitsFor EXCEPT ![r] = _lock]
    /\ _lock' = myLock(r)
    /\ _count' = _count
    /\ chain' = [chain EXCEPT ![r] = "normal"]

\* _waitInLine, lines 98-103
_waitInLine(r) ==
    /\ waitsFor' = [waitsFor EXCEPT ![r] = _lock]
    /\ _lock' = myLock(r)
    /\ _count' = _count + 1
    /\ chain' = [chain EXCEPT ![r] = "normal"]

\* (variant: line 113 left out, _vipLock is never advanced)
_waitInLineVip_stale(r) ==
    /\ waitsFor' = [waitsFor EXCEPT ![r] = _vipLock]
    /\ _vipLock' = _vipLock
    /\ chain' = [chain EXCEPT ![r] = "vip"]

\* _waitInLineVip, lines 111-115
_waitInLineVip(r) ==
    /\ waitsFor' = [waitsFor EXCEPT ![r] = _vipLock]
    /\ _vipLock' = myLock(r)
    /\ chain' = [chain EXCEPT ![r] = "vip"]

\* (variant: the test never finds a holder)
hasHolder_never == _count < 0
\* (variant: the test looks for a waiter behind the holder)
hasHolder_queued == _count > 1
\* the test of lockVip, line 170: is there a mutex-holder to unlock the VIPs
hasHolder == _count > 0

\* number of key calls beyond the first of each key
RECURSIVE Repeats(_)
Repeats(n) ==
    IF n = 0 THEN 0
    ELSE Repeats(n - 1) + (IF Len(keyRuns[n]) > 1 THEN Len(keyRuns[n]) - 1 ELSE 0)

\* may r's key be called: the caller got it from its promise of a key and
\* has not called it yet
mayCallKey(r) ==
    /\ st[r] = "key"
    /\ Len(keyRuns[r]) = 0

\* may r's key be called once more: only after its earlier calls have
\* returned
mayCallKeyAgain(r) ==
    /\ st[r] = "key"
    /\ Len(keyRuns[r]) >= 1
    /\ Len(keyRuns[r]) < MaxKeyCalls
    /\ Repeats(MaxReq) < MaxRepeat
    /\ \A k \in 1..Len(keyRuns[r]) : keyRuns[r][k].pc = "done"

\* no request holds or waits: every request made so far has been admitted
\* and all the calls of its key have returned
idle ==
    \A s \in 1..nreq :
        /\ st[s] = "key"
        /\ Len(keyRuns[s]) >= 1
        /\ \A k \in 1..Len(keyRuns[s]) : keyRuns[s][k].pc = "done"

\* the request whose key is draining the VIP chain (0: none)
draining ==
    IF \E o \in Reqs : \E k \in 1..Len(keyRuns[o]) : keyRuns[o][k].pc = "vipLock"
    THEN CHOOSE o \in Reqs : \E k \in 1..Len(keyRuns[o]) : keyRuns[o][k].pc = "vipLock"
    ELSE 0

\* the requests that wait on the VIP chain
vipWaiting == {v \in Reqs : st[v] = "line" /\ chain[v] = "vip"}

\* lock, lines 148-155: myKey = _getKey(resolve); _waitInLine(myKey, myLock)
lock_call(r) ==
    /\ r = nreq + 1
    /\ r <= MaxReq
    /\ nreq' = r
    /\ kind' = [kind EXCEPT ![r] = "lock"]
    /\ st' = [st EXCEPT ![r] = "line"]
    /\ _waitInLine(r)
    /\ UNCHANGED <<_vipLock, _vipKey, _mtx, nVipLocks, resolved, keyRuns,
                   admitted, vipAtKey, atDrainOf, idleAtCall,
                   uncheckedAtKey, vipAtGuard>>
    /\ UNCHANGED <<mutexVars, mrunVars>>

\* lock() called by a caller that handles the key itself
lock(r) == lock_call(r) /\ UNCHANGED runVars

\* lockVip, lines 164-168: up to the await of _mtx.lock()
lockVip_call(r) ==
    /\ r = nreq + 1
    /\ r <= MaxReq
    /\ nreq' = r
    /\ kind' = [kind EXCEPT ![r] = "lockVip"]
    /\ st' = [st EXCEPT ![r] = "mtx"]
    /\ waitsFor' = [waitsFor EXCEPT ![r] = Mutex_waitOn(_mtx)]
    /\ _mtx' = Mutex_lock(_mtx, newLock(r, 0))
    /\ atDrainOf' = [atDrainOf EXCEPT ![r] = draining]
    /\ idleAtCall' = [idleAtCall EXCEPT ![r] = idle]
    /\ UNCHANGED <<_count, _lock, _vipLock, _vipKey, nVipLocks, resolved,
                   chain, keyRuns, admitted, vipAtKey, uncheckedAtKey,
                   vipAtGuard>>
    /\ UNCHANGED <<mutexVars, mrunVars>>

\* lockVip() called by a caller that handles the key itself
lockVip(r) == lockVip_call(r) /\ UNCHANGED runVars

\* lockVip, lines 169-176: once _mtx is acquired, line up on the VIP chain
\* if there is a holder and on the normal chain if not; _unlockMtx() runs
\* in the finally before the function returns
lockVip_lineUp(r) ==
    /\ st[r] = "mtx"
    /\ Mutex_isUnlocked(_mtx, waitsFor[r])
    /\ IF hasHolder
       THEN _waitInLineVip(r) /\ UNCHANGED <<_lock, _count>>
       ELSE _waitInLine(r) /\ UNCHANGED _vipLock
    /\ _mtx' = Mutex_unlock(_mtx, newLock(r, 0))
    /\ st' = [st EXCEPT ![r] = "line"]
    /\ UNCHANGED <<_vipKey, nVipLocks, resolved, nreq, kind, keyRuns,
                   admitted, vipAtKey, atDrainOf, idleAtCall,
                   uncheckedAtKey, vipAtGuard>>
    /\ UNCHANGED <<mutexVars, runVars, mrunVars>>

\* promiseOfKey, lines 99 and 112: _lock.then(() => myKey) and
\* _vipLock.then(() => myKey); the caller now has its key
promiseOfKey(r) ==
    /\ st[r] = "line"
    /\ waitsFor[r] \in resolved
    /\ st' = [st EXCEPT ![r] = "key"]
    /\ admitted' = Append(admitted, r)
    /\ UNCHANGED <<_count, _lock, _vipLock, _vipKey, _mtx, nVipLocks,
                   resolved, nreq, kind, chain, waitsFor, keyRuns, vipAtKey, atDrainOf,
                   idleAtCall,
                   uncheckedAtKey, vipAtGuard>>
    /\ UNCHANGED <<mutexVars, runVars, mrunVars>>

\* (variant: the key also removes the request from _count)
myKey_call_decrement(r) ==
    /\ kind[r] = "lockVip"
    /\ resolved' = resolved \cup {myLock(r)}
    /\ _count' = _count - 1
    /\ keyRuns' = [keyRuns EXCEPT ![r] = Append(@, [pc |-> "done", waitsFor |-> Unlocked])]
    /\ vipAtKey' = IF Len(keyRuns[r]) = 0
                   THEN [vipAtKey EXCEPT ![r] = vipWaiting] ELSE vipAtKey
    /\ UNCHANGED <<_lock, _vipLock, _vipKey, _mtx, nVipLocks,
                   nreq, kind, st, chain, waitsFor, admitted, atDrainOf,
                   idleAtCall,
                   uncheckedAtKey, vipAtGuard>>
    /\ UNCHANGED <<mutexVars, mrunVars>>

\* the key of lockVip, line 166: myKey = async () => resolve()
myKey_call(r) ==
    /\ kind[r] = "lockVip"
    /\ resolved' = resolved \cup {myLock(r)}
    /\ keyRuns' = [keyRuns EXCEPT ![r] = Append(@, [pc |-> "done", waitsFor |-> Unlocked])]
    /\ vipAtKey' = IF Len(keyRuns[r]) = 0
                   THEN [vipAtKey EXCEPT ![r] = vipWaiting] ELSE vipAtKey
    /\ UNCHANGED <<_count, _lock, _vipLock, _vipKey, _mtx, nVipLocks,
                   nreq, kind, st, chain, waitsFor, admitted, atDrainOf,
                   idleAtCall,
                   uncheckedAtKey, vipAtGuard>>
    /\ UNCHANGED <<mutexVars, mrunVars>>

\* the first call of the key of a lockVip request
myKey(r) == mayCallKey(r) /\ myKey_call(r) /\ UNCHANGED runVars

\* a repeated call of the key of a lockVip request
myKey_again(r) == mayCallKeyAgain(r) /\ myKey_call(r) /\ UNCHANGED runVars

\* the key of lock, lines 122-123: _getKey(resolve) called, up to the await
\* of _mtx.lock()
_getKey_call(r) ==
    /\ kind[r] = "lock"
    /\ keyRuns' = [keyRuns EXCEPT ![r] =
                      Append(@, [pc |-> "mtx", waitsFor |-> Mutex_waitOn(_mtx)])]
    /\ _mtx' = Mutex_lock(_mtx, newLock(r, Len(keyRuns[r]) + 1))
    /\ vipAtKey' = IF Len(keyRuns[r]) = 0
                   THEN [vipAtKey EXCEPT ![r] = vipWaiting] ELSE vipAtKey
    /\ uncheckedAtKey' =
           IF Len(keyRuns[r]) = 0
           THEN [uncheckedAtKey EXCEPT ![r] =
                    {v \in Reqs : kind[v] = "lockVip" /\ st[v] = "mtx"}]
           ELSE uncheckedAtKey
    /\ UNCHANGED <<_count, _lock, _vipLock, _vipKey, nVipLocks, resolved,
                   nreq, kind, st, chain, waitsFor, admitted, atDrainOf,
                   idleAtCall, vipAtGuard>>
    /\ UNCHANGED <<mutexVars, mrunVars>>

\* the first call of the key of a lock request
_getKey(r) == mayCallKey(r) /\ _getKey_call(r) /\ UNCHANGED runVars

\* a repeated call of the key of a lock request
_getKey_again(r) == mayCallKeyAgain(r) /\ _getKey_call(r) /\ UNCHANGED runVars

\* (variant: line 128 left out, the key does not wait for the last VIP)
_getKey_vipKey_noAwait(r, k) ==
    /\ k \in 1..Len(keyRuns[r])
    /\ keyRuns[r][k].pc = "mtx"
    /\ Mutex_isUnlocked(_mtx, keyRuns[r][k].waitsFor)
    /\ resolved' = resolved \cup {_vipKey}
    /\ keyRuns' = [keyRuns EXCEPT ![r][k] = [pc |-> "vipLock", waitsFor |-> Unlocked]]
    /\ vipAtGuard' = IF k = 1
                     THEN [vipAtGuard EXCEPT ![r] = vipWaiting] ELSE vipAtGuard
    /\ UNCHANGED <<_count, _lock, _vipLock, _vipKey, _mtx, nVipLocks,
                   nreq, kind, st, chain, waitsFor, admitted, vipAtKey, atDrainOf,
                   idleAtCall,
                   uncheckedAtKey>>
    /\ UNCHANGED <<mutexVars, runVars, mrunVars>>

\* (variant: line 127 left out, _vipKey() is not called before the await)
_getKey_vipKey_noCall(r, k) ==
    /\ k \in 1..Len(keyRuns[r])
    /\ keyRuns[r][k].pc = "mtx"
    /\ Mutex_isUnlocked(_mtx, keyRuns[r][k].waitsFor)
    /\ resolved' = resolved
    /\ keyRuns' = [keyRuns EXCEPT ![r][k] = [pc |-> "vipLock", waitsFor |-> _vipLock]]
    /\ vipAtGuard' = IF k = 1
                     THEN [vipAtGuard EXCEPT ![r] = vipWaiting] ELSE vipAtGuard
    /\ UNCHANGED <<_count, _lock, _vipLock, _vipKey, _mtx, nVipLocks,
                   nreq, kind, st, chain, waitsFor, admitted, vipAtKey, atDrainOf,
                   idleAtCall,
                   uncheckedAtKey>>
    /\ UNCHANGED <<mutexVars, runVars, mrunVars>>

\* (variant: the guard is released before the await of line 128 instead of
\* in the finally block)
_getKey_vipKey_unlockEarly(r, k) ==
    /\ k \in 1..Len(keyRuns[r])
    /\ keyRuns[r][k].pc = "mtx"
    /\ Mutex_isUnlocked(_mtx, keyRuns[r][k].waitsFor)
    /\ resolved' = resolved \cup {_vipKey}
    /\ keyRuns' = [keyRuns EXCEPT ![r][k] = [pc |-> "vipLock", waitsFor |-> _vipLock]]
    /\ _mtx' = Mutex_unlock(_mtx, newLock(r, k))
    /\ vipAtGuard' = IF k = 1
                     THEN [vipAtGuard EXCEPT ![r] = vipWaiting] ELSE vipAtGuard
    /\ UNCHANGED <<_count, _lock, _vipLock, _vipKey, nVipLocks,
                   nreq, kind, st, chain, waitsFor, admitted, vipAtKey, atDrainOf,
                   idleAtCall,
                   uncheckedAtKey>>
    /\ UNCHANGED <<mutexVars, runVars, mrunVars>>

\* _getKey, lines 127-128: with _mtx acquired, _vipKey() and then
\* await _vipLock
_getKey_vipKey(r, k) ==
    /\ k \in 1..Len(keyRuns[r])
    /\ keyRuns[r][k].pc = "mtx"
    /\ Mutex_isUnlocked(_mtx, keyRuns[r][k].waitsFor)
    /\ resolved' = resolved \cup {_vipKey}
    /\ keyRuns' = [keyRuns EXCEPT ![r][k] = [pc |-> "vipLock", waitsFor |-> _vipLock]]
    /\ vipAtGuard' = IF k = 1
                     THEN [vipAtGuard EXCEPT ![r] = vipWaiting] ELSE vipAtGuard
    /\ UNCHANGED <<_count, _lock, _vipLock, _vipKey, _mtx, nVipLocks,
                   nreq, kind, st, chain, waitsFor, admitted, vipAtKey, atDrainOf, idleAtCall,
                   uncheckedAtKey>>
    /\ UNCHANGED <<mutexVars, runVars, mrunVars>>

\* (variant: no finally block, line 134 left out: the guard is not released)
_getKey_resolve_noFinally(r, k) ==
    /\ k \in 1..Len(keyRuns[r])
    /\ keyRuns[r][k].pc = "vipLock"
    /\ keyRuns[r][k].waitsFor \in resolved
    /\ _initVipLock
    /\ _count' = _count - 1
    /\ resolved' = resolved \cup {myLock(r)}
    /\ _mtx' = _mtx
    /\ keyRuns' = [keyRuns EXCEPT ![r][k] = [pc |-> "done", waitsFor |-> Unlocked]]
    /\ UNCHANGED <<_lock, nreq, kind, st, chain, waitsFor, admitted, vipAtKey,
                   atDrainOf, idleAtCall, uncheckedAtKey, vipAtGuard>>
    /\ UNCHANGED <<mutexVars, runVars, mrunVars>>

\* (variant: line 131 left out, the release does not decrement _count)
_getKey_resolve_noDecrement(r, k) ==
    /\ k \in 1..Len(keyRuns[r])
    /\ keyRuns[r][k].pc = "vipLock"
    /\ keyRuns[r][k].waitsFor \in resolved
    /\ _initVipLock
    /\ _count' = _count
    /\ resolved' = resolved \cup {myLock(r)}
    /\ _mtx' = Mutex_unlock(_mtx, newLock(r, k))
    /\ keyRuns' = [keyRuns EXCEPT ![r][k] = [pc |-> "done", waitsFor |-> Unlocked]]
    /\ UNCHANGED <<_lock, nreq, kind, st, chain, waitsFor, admitted, vipAtKey,
                   atDrainOf, idleAtCall,
                   uncheckedAtKey, vipAtGuard>>
    /\ UNCHANGED <<mutexVars, runVars, mrunVars>>

\* _getKey, lines 129-134: the awaited _vipLock is resolved: _initVipLock(),
\* _count--, resolve() and, in the finally, _unlockMtx()
_getKey_resolve(r, k) ==
    /\ k \in 1..Len(keyRuns[r])
    /\ keyRuns[r][k].pc = "vipLock"
    /\ keyRuns[r][k].waitsFor \in resolved
    /\ _initVipLock
    /\ _count' = _count - 1
    /\ resolved' = resolved \cup {myLock(r)}
    /\ _mtx' = Mutex_unlock(_mtx, newLock(r, k))
    /\ keyRuns' = [keyRuns EXCEPT ![r][k] = [pc |-> "done", waitsFor |-> Unlocked]]
    /\ UNCHANGED <<_lock, nreq, kind, st, chain, waitsFor, admitted, vipAtKey,
                   atDrainOf, idleAtCall,
                   uncheckedAtKey, vipAtGuard>>
    /\ UNCHANGED <<mutexVars, runVars, mrunVars>>

\* ---------------------------------------------------------------- PriorityMutex (README)
\* The class PriorityMutex of README.md keeps the state of makeVipMutex
\* under other names; its model uses the same variables:
\*   _lock    for this._currentLock       _vipLock for this._currentVipLock
\*   _vipKey  for this._unlockAllVipLocks _mtx     for this._internalMutex
\*   mutex    for this._vipMutex          keyRuns  for the calls of _unlock
\* and "lockVip" / "lock" as the kind of a lock(true) / lock(false) request.

\* lock(vip), line 213: await this._internalMutex.lock()
PriorityMutex_lock(r, vip) ==
    /\ r = nreq + 1
    /\ r <= MaxReq
    /\ nreq' = r
    /\ kind' = [kind EXCEPT ![r] = IF vip THEN "lockVip" ELSE "lock"]
    /\ st' = [st EXCEPT ![r] = "mtx"]
    /\ waitsFor' = [waitsFor EXCEPT ![r] = Mutex_waitOn(_mtx)]
    /\ _mtx' = Mutex_lock(_mtx, newLock(r, 0))
    /\ UNCHANGED <<_count, _lock, _vipLock, _vipKey, nVipLocks, resolved,
                   chain, keyRuns, admitted, vipAtKey, atDrainOf, idleAtCall,
                   uncheckedAtKey, vipAtGuard>>
    /\ UNCHANGED <<mutexVars, runVars, mrunVars>>

\* lock(vip), lines 259-263, on the else branch of line 254: the new lock
\* becomes _currentVipLock if vip, _currentLock if not
PriorityMutex_newTail(r) ==
    IF kind[r] = "lockVip"
    THEN _vipLock' = myLock(r) /\ UNCHANGED _lock
    ELSE _lock' = myLock(r) /\ UNCHANGED _vipLock

\* lock(vip), lines 214-268, with _internalMutex acquired: a VIP that finds
\* _count > 0 awaits this._vipMutex.lock() (line 248); any other request
\* is promised its _unlock on _currentLock (line 255), is counted (line
\* 256), sets the tail (lines 259-263) and releases _internalMutex (267)
PriorityMutex_lock_try(r) ==
    /\ st[r] = "mtx"
    /\ Mutex_isUnlocked(_mtx, waitsFor[r])
    /\ IF kind[r] = "lockVip" /\ _count > 0
       THEN /\ st' = [st EXCEPT ![r] = "vipMtx"]
            /\ waitsFor' = [waitsFor EXCEPT ![r] = Mutex_waitOn(mutex)]
            /\ mutex' = Mutex_lock(mutex, vipMutexLock(r, 0))
            /\ UNCHANGED <<_count, _lock, _vipLock, _mtx, chain>>
       ELSE /\ st' = [st EXCEPT ![r] = "line"]
            /\ waitsFor' = [waitsFor EXCEPT ![r] = _lock]
            /\ chain' = [chain EXCEPT ![r] = "normal"]
            /\ _count' = _count + 1
            /\ PriorityMutex_newTail(r)
            /\ _mtx' = Mutex_unlock(_mtx, newLock(r, 0))
            /\ UNCHANGED mutex
    /\ UNCHANGED <<_vipKey, nVipLocks, resolved, nreq, kind, keyRuns,
                   admitted, vipAtKey, atDrainOf, idleAtCall,
                   uncheckedAtKey, vipAtGuard>>
    /\ UNCHANGED <<ncallers, mst, mwaitsFor, munlocks, madmitted>>
    /\ UNCHANGED <<runVars, mrunVars>>

\* lock(true), lines 250-252, 260 and 267, with _vipMutex acquired: the
\* promise is chained on _currentVipLock, _vipMutex is released, the new
\* lock becomes _currentVipLock and _internalMutex is released
PriorityMutex_lock_vip(r) ==
    /\ st[r] = "vipMtx"
    /\ Mutex_isUnlocked(mutex, waitsFor[r])
    /\ st' = [st EXCEPT ![r] = "line"]
    /\ waitsFor' = [waitsFor EXCEPT ![r] = _vipLock]
    /\ chain' = [chain EXCEPT ![r] = "vip"]
    /\ mutex' = Mutex_unlock(mutex, vipMutexLock(r, 0))
    /\ _vipLock' = myLock(r)
    /\ _mtx' = Mutex_unlock(_mtx, newLock(r, 0))
    /\ UNCHANGED <<_count, _lock, _vipKey, nVipLocks, resolved, nreq, kind,
                   keyRuns, admitted, vipAtKey, atDrainOf, idleAtCall,
                   uncheckedAtKey, vipAtGuard>>
    /\ UNCHANGED <<ncallers, mst, mwaitsFor, munlocks, madmitted>>
    /\ UNCHANGED <<runVars, mrunVars>>

\* lines 250 and 255: the reaction .then(() => _unlock) of the promise
PriorityMutex_promiseOfUnlock(r) ==
    /\ st[r] = "line"
    /\ waitsFor[r] \in resolved
    /\ st' = [st EXCEPT ![r] = "key"]
    /\ admitted' = Append(admitted, r)
    /\ UNCHANGED <<_count, _lock, _vipLock, _vipKey, _mtx, nVipLocks,
                   resolved, nreq, kind, chain, waitsFor, keyRuns, vipAtKey,
                   atDrainOf, idleAtCall, uncheckedAtKey, vipAtGuard>>
    /\ UNCHANGED <<mutexVars, runVars, mrunVars>>

\* the _unlock of a lock(true) request, line 220: async () => resolve(),
\* called once by its holder
PriorityMutex_unlockVip(r) ==
    /\ kind[r] = "lockVip"
    /\ mayCallKey(r)
    /\ resolved' = resolved \cup {myLock(r)}
    /\ keyRuns' = [keyRuns EXCEPT ![r] = Append(@, [pc |-> "done", waitsFor |-> Unlocked])]
    /\ UNCHANGED <<_count, _lock, _vipLock, _vipKey, _mtx, nVipLocks,
                   nreq, kind, st, chain, waitsFor, admitted, vipAtKey,
                   atDrainOf, idleAtCall, uncheckedAtKey, vipAtGuard>>
    /\ UNCHANGED <<mutexVars, runVars, mrunVars>>

\* the _unlock of a lock(false) request, called once by its holder; line
\* 227: await this._vipMutex.lock()
PriorityMutex_unlock(r) ==
    /\ kind[r] = "lock"
    /\ mayCallKey(r)
    /\ keyRuns' = [keyRuns EXCEPT ![r] =
                      Append(@, [pc |-> "mtx", waitsFor |-> Mutex_waitOn(mutex)])]
    /\ mutex' = Mutex_lock(mutex, vipMutexLock(r, 1))
    /\ UNCHANGED <<_count, _lock, _vipLock, _vipKey, _mtx, nVipLocks, resolved,
                   nreq, kind, st, chain, waitsFor, admitted, vipAtKey,
                   atDrainOf, idleAtCall, uncheckedAtKey, vipAtGuard>>
    /\ UNCHANGED <<ncallers, mst, mwaitsFor, munlocks, madmitted>>
    /\ UNCHANGED <<runVars, mrunVars>>

\* _unlock, lines 229-231, with _vipMutex acquired:
\* this._unlockAllVipLocks() and then await this._currentVipLock
PriorityMutex_unlock_vipLocks(r) ==
    /\ Len(keyRuns[r]) = 1
    /\ keyRuns[r][1].pc = "mtx"
    /\ Mutex_isUnlocked(mutex, keyRuns[r][1].waitsFor)
    /\ resolved' = resolved \cup {_vipKey}
    /\ keyRuns' = [keyRuns EXCEPT ![r][1] = [pc |-> "vipLock", waitsFor |-> _vipLock]]
    /\ UNCHANGED <<_count, _lock, _vipLock, _vipKey, _mtx, nVipLocks,
                   nreq, kind, st, chain, waitsFor, admitted, vipAtKey,
                   atDrainOf, idleAtCall, uncheckedAtKey, vipAtGuard>>
    /\ UNCHANGED <<mutexVars, runVars, mrunVars>>

\* _unlock, lines 233-239, when the awaited lock is resolved:
\* _initVipLock(), unlockVipMutex() in the finally, this._count--, resolve()
PriorityMutex_unlock_resolve(r) ==
    /\ Len(keyRuns[r]) = 1
    /\ keyRuns[r][1].pc = "vipLock"
    /\ keyRuns[r][1].waitsFor \in resolved
    /\ _initVipLock
    /\ mutex' = Mutex_unlock(mutex, vipMutexLock(r, 1))
    /\ _count' = _count - 1
    /\ resolved' = resolved \cup {myLock(r)}
    /\ keyRuns' = [keyRuns EXCEPT ![r][1] = [pc |-> "done", waitsFor |-> Unlocked]]
    /\ UNCHANGED <<_lock, _mtx, nreq, kind, st, chain, waitsFor, admitted,
                   vipAtKey, atDrainOf, idleAtCall, uncheckedAtKey, vipAtGuard>>
    /\ UNCHANGED <<ncallers, mst, mwaitsFor, munlocks, madmitted>>
    /\ UNCHANGED <<runVars, mrunVars>>

\* ---------------------------------------------------------------- plain Mutex in use
\* this.lock, lines 19-35, called on behalf of caller c
Mutex_lock_call(c) ==
    /\ c = ncallers + 1
    /\ c <= MaxCallers
    /\ ncallers' = c
    /\ mwaitsFor' = [mwaitsFor EXCEPT ![c] = Mutex_waitOn(mutex)]
    /\ mutex' = Mutex_lock(mutex, newLock(c, 0))
    /\ mst' = [mst EXCEPT ![c] = "wait"]
    /\ UNCHANGED <<munlocks, madmitted>>
    /\ UNCHANGED <<vipVars, runVars>>

\* (variant: _currentLock is one variable shared by all the mutexes)
Mutex_lockCall_shared(c) ==
    /\ c = ncallers + 1
    /\ c <= MaxCallers
    /\ ncallers' = c
    /\ mwaitsFor' = [mwaitsFor EXCEPT ![c] = Mutex_waitOn(mutex)]
    /\ mutex' = Mutex_lock(mutex, newLock(c, 0))
    /\ _mtx' = [_mtx EXCEPT !._currentLock = newLock(c, 0)]
    /\ mst' = [mst EXCEPT ![c] = "wait"]
    /\ UNCHANGED <<munlocks, madmitted>>
    /\ UNCHANGED <<_count, _lock, _vipLock, _vipKey, nVipLocks, resolved,
                   nreq, kind, st, chain, waitsFor, keyRuns, admitted, vipAtKey,
                   atDrainOf, idleAtCall,
                   uncheckedAtKey, vipAtGuard>>
    /\ UNCHANGED <<runVars, mrunVars>>

\* this.lock called by a caller that handles the _unlock itself
Mutex_lockCall(c) == Mutex_lock_call(c) /\ UNCHANGED mrunVars

\* promiseOfUnlock, line 30: _currentLock.then(() => _unlock)
promiseOfUnlock(c) ==
    /\ mst[c] = "wait"
    /\ Mutex_isUnlocked(mutex, mwaitsFor[c])
    /\ mst' = [mst EXCEPT ![c] = "unlock"]
    /\ madmitted' = Append(madmitted, c)
    /\ UNCHANGED <<mutex, ncallers, mwaitsFor, munlocks>>
    /\ UNCHANGED <<vipVars, runVars, mrunVars>>

\* _unlock, line 25
_unlock_call(c) ==
    /\ mst[c] = "unlock"
    /\ munlocks[c] < MaxUnlocks
    /\ mutex' = Mutex_unlock(mutex, newLock(c, 0))
    /\ munlocks' = [munlocks EXCEPT ![c] = @ + 1]
    /\ UNCHANGED <<ncallers, mst, mwaitsFor, madmitted>>
    /\ UNCHANGED <<vipVars, runVars>>

\* _unlock called by the caller that holds it
_unlock(c) == _unlock_call(c) /\ UNCHANGED mrunVars

\* ---------------------------------------------------------------- run and runVip
\* what the promise of run() settles to after an executor with outcome o
settled(o) == IF o = "thrown" THEN "rejected" ELSE "fulfilled"

\* run, lines 190-191: unlock = await lock(); lock() is called at once
run(r) ==
    /\ lock_call(r)
    /\ task' = [task EXCEPT ![r] = "run"]
    /\ UNCHANGED <<outcome, loaded, balance>>

\* runVip, lines 203-204: unlock = await lockVip()
runVip(r) ==
    /\ lockVip_call(r)
    /\ task' = [task EXCEPT ![r] = "run"]
    /\ UNCHANGED <<outcome, loaded, balance>>

\* run, lines 192-193 (runVip, 205-206): with the key, await
\* executor(...args); the executor returns or throws
executor(r, o) ==
    /\ task[r] = "run"
    /\ st[r] = "key"
    /\ task' = [task EXCEPT ![r] = "finally"]
    /\ outcome' = [outcome EXCEPT ![r] = o]
    /\ UNCHANGED <<loaded, balance>>
    /\ UNCHANGED <<vipVars, mutexVars, mrunVars>>

\* (variant: unlock() after the await instead of in a finally block: it is
\* skipped when the executor throws)
run_finally_noFinally(r) ==
    /\ task[r] = "finally"
    /\ IF outcome[r] = "thrown"
       THEN UNCHANGED <<vipVars, mutexVars, mrunVars>>
       ELSE myKey_call(r) \/ _getKey_call(r)
    /\ task' = [task EXCEPT ![r] = settled(outcome[r])]
    /\ UNCHANGED <<outcome, loaded, balance>>

\* run, lines 194-196 (runVip, 207-209): finally { unlock() }, then the
\* promise of run() settles as the executor did
run_finally(r) ==
    /\ task[r] = "finally"
    /\ myKey_call(r) \/ _getKey_call(r)
    /\ task' = [task EXCEPT ![r] = settled(outcome[r])]
    /\ UNCHANGED <<outcome, loaded, balance>>

\* Mutex.run, lines 48-49: unlock = await this.lock()
Mutex_run(c) ==
    /\ Mutex_lock_call(c)
    /\ mtask' = [mtask EXCEPT ![c] = "run"]
    /\ UNCHANGED <<moutcome, mloaded, mbalance>>

\* Mutex.run, lines 50-51: await callback(...args); it returns or throws
Mutex_executor(c, o) ==
    /\ mtask[c] = "run"
    /\ mst[c] = "unlock"
    /\ mtask' = [mtask EXCEPT ![c] = "finally"]
    /\ moutcome' = [moutcome EXCEPT ![c] = o]
    /\ UNCHANGED <<mloaded, mbalance>>
    /\ UNCHANGED <<vipVars, mutexVars, runVars>>

\* Mutex.run, lines 52-54: finally { unlock() }
Mutex_run_finally(c) ==
    /\ mtask[c] = "finally"
    /\ _unlock_call(c)
    /\ mtask' = [mtask EXCEPT ![c] = settled(moutcome[c])]
    /\ UNCHANGED <<moutcome, mloaded, mbalance>>

\* ---------------------------------------------------------------- the sell of the demos
\* const newBalance = balance + 50
Price == 50

\* _unsafeSell run by run()/runVip() of the VipMutex: const balance = await
\* loadBalance(), which returns the global balance after a delay
loadBalance(r) ==
    /\ task[r] = "run"
    /\ st[r] = "key"
    /\ loaded' = [loaded EXCEPT ![r] = balance]
    /\ task' = [task EXCEPT ![r] = "loaded"]
    /\ UNCHANGED <<outcome, balance>>
    /\ UNCHANGED <<vipVars, mutexVars, mrunVars>>

\* _unsafeSell: await saveBalance(balance + 50), which sets the global
\* balance after a delay; then the sell returns
saveBalance(r) ==
    /\ task[r] = "loaded"
    /\ balance' = loaded[r] + Price
    /\ task' = [task EXCEPT ![r] = "finally"]
    /\ outcome' = [outcome EXCEPT ![r] = "returned"]
    /\ UNCHANGED loaded
    /\ UNCHANGED <<vipVars, mutexVars, mrunVars>>

\* _unsafeSell called without a mutex (main, lines 41-48); sell s is not a
\* request of the mutex (kind[s] = ""), task[s] is the state of its promise.
\* Line 25: const balance = await loadBalance()
_unsafeSell_loadBalance(s) ==
    /\ kind[s] = ""
    /\ task[s] = ""
    /\ loaded' = [loaded EXCEPT ![s] = balance]
    /\ task' = [task EXCEPT ![s] = "loaded"]
    /\ UNCHANGED <<outcome, balance>>
    /\ UNCHANGED <<vipVars, mutexVars, mrunVars>>

\* (variant: the sell adds 50 to the balance of the time of the write)
_unsafeSell_saveBalance_current(s) ==
    /\ kind[s] = ""
    /\ task[s] = "loaded"
    /\ balance' = balance + Price
    /\ task' = [task EXCEPT ![s] = "fulfilled"]
    /\ outcome' = [outcome EXCEPT ![s] = "returned"]
    /\ UNCHANGED loaded
    /\ UNCHANGED <<vipVars, mutexVars, mrunVars>>

\* _unsafeSell without a mutex, lines 27-29: await saveBalance(balance + 50)
\* with the balance loaded at line 25; then the sell is over
_unsafeSell_saveBalance(s) ==
    /\ kind[s] = ""
    /\ task[s] = "loaded"
    /\ balance' = loaded[s] + Price
    /\ task' = [task EXCEPT ![s] = "fulfilled"]
    /\ outcome' = [outcome EXCEPT ![s] = "returned"]
    /\ UNCHANGED loaded
    /\ UNCHANGED <<vipVars, mutexVars, mrunVars>>

\* _sell run by run() of the plain mutex: const balance = await loadBalance()
Mutex_loadBalance(c) ==
    /\ mtask[c] = "run"
    /\ mst[c] = "unlock"
    /\ mloaded' = [mloaded EXCEPT ![c] = mbalance]
    /\ mtask' = [mtask EXCEPT ![c] = "loaded"]
    /\ UNCHANGED <<moutcome, mbalance>>
    /\ UNCHANGED <<vipVars, mutexVars, runVars>>

\* _sell: await saveBalance(balance + 50); then the sell returns
Mutex_saveBalance(c) ==
    /\ mtask[c] = "loaded"
    /\ mbalance' = mloaded[c] + Price
    /\ mtask' = [mtask EXCEPT ![c] = "finally"]
    /\ moutcome' = [moutcome EXCEPT ![c] = "returned"]
    /\ UNCHANGED mloaded
    /\ UNCHANGED <<vipVars, mutexVars, runVars>>

\* ---------------------------------------------------------------- specifications
Init ==
    /\ _count = 0
    /\ _lock = Unlocked
    /\ _vipLock = vipSentinel(0)
    /\ _vipKey = vipSentinel(0)
    /\ _mtx = Mutex
    /\ nVipLocks = 0
    /\ resolved = {Unlocked}
    /\ nreq = 0
    /\ kind = [r \in Reqs |-> ""]
    /\ st = [r \in Reqs |-> "new"]
    /\ chain = [r \in Reqs |-> ""]
    /\ waitsFor = [r \in Reqs |-> Unlocked]
    /\ keyRuns = [r \in Reqs |-> <<>>]
    /\ admitted = <<>>
    /\ vipAtKey = [r \in Reqs |-> {}]
    /\ atDrainOf = [r \in Reqs |-> 0]
    /\ idleAtCall = [r \in Reqs |-> FALSE]
    /\ uncheckedAtKey = [r \in Reqs |-> {}]
    /\ vipAtGuard = [r \in Reqs |-> {}]
    /\ mutex = Mutex
    /\ ncallers = 0
    /\ mst = [c \in Callers |-> "new"]
    /\ mwaitsFor = [c \in Callers |-> Unlocked]
    /\ munlocks = [c \in Callers |-> 0]
    /\ madmitted = <<>>
    /\ task = [r \in Reqs |-> ""]
    /\ outcome = [r \in Reqs |-> ""]
    /\ loaded = [r \in Reqs |-> 0]
    /\ balance = 0
    /\ mtask = [c \in Callers |-> ""]
    /\ moutcome = [c \in Callers |-> ""]
    /\ mloaded = [c \in Callers |-> 0]
    /\ mbalance = 0

\* the VipMutex and callers that call each key at most once
Next ==
    \/ \E r \in 1..MaxSpecReq : lock(r)
    \/ \E r \in 1..MaxSpecReq : lockVip(r)
    \/ \E r \in Reqs : lockVip_lineUp(r)
    \/ \E r \in Reqs : promiseOfKey(r)
    \/ \E r \in Reqs : myKey(r)
    \/ \E r \in Reqs : _getKey(r)
    \/ \E r \in Reqs : \E k \in 1..MaxKeyCalls : _getKey_vipKey(r, k)
    \/ \E r \in Reqs : \E k \in 1..MaxKeyCalls : _getKey_resolve(r, k)

Spec == Init /\ [][Next]_vars

\* the VipMutex and callers that may call a key more than once
RepeatNext ==
    \/ Next
    \/ \E r \in Reqs : myKey_again(r)
    \/ \E r \in Reqs : _getKey_again(r)

RepeatSpec == Init /\ [][RepeatNext]_vars

\* the VipMutex and callers that call each key once: every reaction whose
\* promise is resolved runs in the end (the microtask queue is served) and
\* every caller that has its key calls it in the end; no caller has to
\* make a request
FairNext ==
    \/ \E r \in 1..MaxLiveReq : lock(r)
    \/ \E r \in 1..MaxLiveReq : lockVip(r)
    \/ \E r \in Reqs : lockVip_lineUp(r)
    \/ \E r \in Reqs : promiseOfKey(r)
    \/ \E r \in Reqs : myKey(r)
    \/ \E r \in Reqs : _getKey(r)
    \/ \E r \in Reqs : \E k \in 1..MaxKeyCalls : _getKey_vipKey(r, k)
    \/ \E r \in Reqs : \E k \in 1..MaxKeyCalls : _getKey_resolve(r, k)

FairSpec ==
    /\ Init
    /\ [][FairNext]_vars
    /\ WF_vars(\E r \in Reqs : lockVip_lineUp(r))
    /\ WF_vars(\E r \in Reqs : promiseOfKey(r))
    /\ WF_vars(\E r \in Reqs : myKey(r))
    /\ WF_vars(\E r \in Reqs : _getKey(r))
    /\ WF_vars(\E r \in Reqs : \E k \in 1..MaxKeyCalls : _getKey_vipKey(r, k))
    /\ WF_vars(\E r \in Reqs : \E k \in 1..MaxKeyCalls : _getKey_resolve(r, k))

\* the tasks of one program go through one mutex: the callers of run() and
\* runVip() of the VipMutex when the plain Mutex is not in use, and the
\* callers of run() of the plain Mutex when the VipMutex is not in use
VipRunners == IF ncallers = 0 THEN 1..MaxRunReq ELSE {}
MutexRunners == IF nreq = 0 THEN 1..MaxRunCallers ELSE {}

\* tasks run through run()/runVip() of the VipMutex or through run() of the
\* plain Mutex; a task returns or throws
RunNext ==
    \/ \E r \in VipRunners : run(r)
    \/ \E r \in VipRunners : runVip(r)
    \/ \E r \in Reqs : lockVip_lineUp(r)
    \/ \E r \in Reqs : promiseOfKey(r)
    \/ \E r \in Reqs : \E o \in {"returned", "thrown"} : executor(r, o)
    \/ \E r \in Reqs : run_finally(r)
    \/ \E r \in Reqs : \E k \in 1..MaxKeyCalls : _getKey_vipKey(r, k)
    \/ \E r \in Reqs : \E k \in 1..MaxKeyCalls : _getKey_resolve(r, k)
    \/ \E c \in MutexRunners : Mutex_run(c)
    \/ \E c \in Callers : promiseOfUnlock(c)
    \/ \E c \in Callers : \E o \in {"returned", "thrown"} : Mutex_executor(c, o)
    \/ \E c \in Callers : Mutex_run_finally(c)

RunSpec == Init /\ [][RunNext]_vars

\* the callers of the demo: lock() requests first, then lockVip() requests,
\* all of them made before the first request's key is called
DemoOrdinary == IF \A s \in 1..nreq : kind[s] = "lock" THEN Reqs ELSE {}
DemoVips == IF nreq >= 1 /\ Len(keyRuns[1]) = 0 THEN Reqs ELSE {}

DemoNext ==
    \/ \E r \in DemoOrdinary : lock(r)
    \/ \E r \in DemoVips : lockVip(r)
    \/ \E r \in Reqs : lockVip_lineUp(r)
    \/ \E r \in Reqs : promiseOfKey(r)
    \/ \E r \in Reqs : myKey(r)
    \/ \E r \in Reqs : _getKey(r)
    \/ \E r \in Reqs : \E k \in 1..MaxKeyCalls : _getKey_vipKey(r, k)
    \/ \E r \in Reqs : \E k \in 1..MaxKeyCalls : _getKey_resolve(r, k)

DemoSpec == Init /\ [][DemoNext]_vars

\* sells run concurrently through run() and runVip() of the VipMutex
SellNext ==
    \/ \E r \in 1..MaxSellReq : run(r)
    \/ \E r \in 1..MaxSellReq : runVip(r)
    \/ \E r \in Reqs : lockVip_lineUp(r)
    \/ \E r \in Reqs : promiseOfKey(r)
    \/ \E r \in Reqs : loadBalance(r)
    \/ \E r \in Reqs : saveBalance(r)
    \/ \E r \in Reqs : run_finally(r)
    \/ \E r \in Reqs : \E k \in 1..MaxKeyCalls : _getKey_vipKey(r, k)
    \/ \E r \in Reqs : \E k \in 1..MaxKeyCalls : _getKey_resolve(r, k)

SellSpec == Init /\ [][SellNext]_vars

\* sells run concurrently through run() of the plain mutex
MutexSellNext ==
    \/ \E c \in Callers : Mutex_run(c)
    \/ \E c \in Callers : promiseOfUnlock(c)
    \/ \E c \in Callers : Mutex_loadBalance(c)
    \/ \E c \in Callers : Mutex_saveBalance(c)
    \/ \E c \in Callers : Mutex_run_finally(c)

MutexSellSpec == Init /\ [][MutexSellNext]_vars

\* sells run concurrently without a mutex
UnsafeSellNext ==
    \/ \E s \in 1..MaxUnsafeSells : _unsafeSell_loadBalance(s)
    \/ \E s \in 1..MaxUnsafeSells : _unsafeSell_saveBalance(s)

UnsafeSellSpec == Init /\ [][UnsafeSellNext]_vars

\* the PriorityMutex of the README, every _unlock called at most once
PriorityNext ==
    \/ \E r \in 1..MaxPriorityReq : \E vip \in BOOLEAN : PriorityMutex_lock(r, vip)
    \/ \E r \in Reqs : PriorityMutex_lock_try(r)
    \/ \E r \in Reqs : PriorityMutex_lock_vip(r)
    \/ \E r \in Reqs : PriorityMutex_promiseOfUnlock(r)
    \/ \E r \in Reqs : PriorityMutex_unlockVip(r)
    \/ \E r \in Reqs : PriorityMutex_unlock(r)
    \/ \E r \in Reqs : PriorityMutex_unlock_vipLocks(r)
    \/ \E r \in Reqs : PriorityMutex_unlock_resolve(r)

PrioritySpec == Init /\ [][PriorityNext]_vars

\* the plain Mutex and its callers
MutexNext ==
    \/ \E c \in Callers : Mutex_lockCall(c)
    \/ \E c \in Callers : promiseOfUnlock(c)
    \/ \E c \in Callers : _unlock(c)

MutexSpec == Init /\ [][MutexNext]_vars


\* a VipMutex (with its own internal Mutex, _mtx) and a plain Mutex in use
\* in the same program
TwoNext ==
    \/ \E r \in 1..MaxTwoReq : lock(r)
    \/ \E r \in 1..MaxTwoReq : lockVip(r)
    \/ \E r \in Reqs : lockVip_lineUp(r)
    \/ \E r \in Reqs : promiseOfKey(r)
    \/ \E r \in Reqs : myKey(r)
    \/ \E r \in Reqs : _getKey(r)
    \/ \E r \in Reqs : \E k \in 1..MaxKeyCalls : _getKey_vipKey(r, k)
    \/ \E r \in Reqs : \E k \in 1..MaxKeyCalls : _getKey_resolve(r, k)
    \/ \E c \in 1..MaxTwoCallers : Mutex_lockCall(c)
    \/ \E c \in Callers : promiseOfUnlock(c)
    \/ \E c \in Callers : _unlock(c)

TwoSpec == Init /\ [][TwoNext]_vars

\* ---------------------------------------------------------------- vocabulary of the properties
\* r has its key and has not called it: r holds the VipMutex
Holding(r) == st[r] = "key" /\ Len(keyRuns[r]) = 0
\* r has called its key
Released(r) == Len(keyRuns[r]) >= 1
\* a was admitted, and before b (if b was admitted at all)
Before(a, b) ==
    \E i \in 1..Len(admitted) :
        /\ admitted[i] = a
        /\ \A j \in 1..i : admitted[j] # b
\* n is lined up on the normal chain right behind o
NextInLine(o, n) == chain[n] = "normal" /\ waitsFor[n] = myLock(o)

\* every unlock of the plain Mutex has been called at most once so far
MOnceEach == \A c \in Callers : munlocks[c] <= 1
\* c has its _unlock and has not called it
MHolding(c) == mst[c] = "unlock" /\ munlocks[c] = 0

\* ---------------------------------------------------------------- C1
\* C1: when every key is called at most once (Spec), at most one request
\* of the VipMutex has its key and has not called it yet.
C1_MutualExclusion ==
    Cardinality({r \in Reqs : Holding(r)}) <= 1

\* a VIP request holds during a drain while a request on the normal chain waits
C1_Witness ==
    \E v, n \in Reqs :
        /\ Holding(v) /\ chain[v] = "vip"
        /\ st[n] = "line" /\ chain[n] = "normal"

\* ---------------------------------------------------------------- C2
\* C2: as long as every _unlock is called at most once, at most one caller
\* of the plain Mutex holds it, and the k-th caller gets its _unlock only
\* after the (k-1)-th caller has called its own.
C2_MutexExclusion ==
    MOnceEach =>
        /\ Cardinality({c \in Callers : MHolding(c)}) <= 1
        /\ \A c \in Callers : (c > 1 /\ mst[c] = "unlock") => munlocks[c - 1] >= 1

\* the second caller holds after the first one unlocked; a third one waits
C2_Witness ==
    /\ MOnceEach
    /\ munlocks[1] = 1 /\ MHolding(2) /\ mst[3] = "wait"

\* ---------------------------------------------------------------- C3
\* C3: once a holder admitted by lock() has called its key, the VIP
\* requests that were waiting on the VIP chain at that call are admitted in
\* the order of their arrival, and the request next in line on the normal
\* chain is admitted only after all of them have been admitted and have
\* called their keys.
C3_VipOvertake ==
    \A o \in Reqs : (kind[o] = "lock" /\ Released(o)) =>
        /\ \A v, w \in vipAtKey[o] : (v < w /\ st[w] = "key") => Before(v, w)
        /\ \A n \in Reqs : (NextInLine(o, n) /\ st[n] = "key") =>
               \A v \in vipAtKey[o] : Released(v) /\ Before(v, n)

\* holder 1, then o1 = 2, o2 = 3, v1 = 4, v2 = 5 made while 1 holds:
\* admitted in the order 1, v1, v2, o1, o2
C3_Witness ==
    /\ kind[1] = "lock" /\ kind[2] = "lock" /\ kind[3] = "lock"
    /\ kind[4] = "lockVip" /\ kind[5] = "lockVip"
    /\ vipAtKey[1] = {4, 5}
    /\ admitted = <<1, 4, 5, 2, 3>>

\* ---------------------------------------------------------------- C4
\* C4: for every holder, whichever call admitted it, the VIP requests that
\* wait on the VIP chain when the holder calls its key are admitted before
\* any lock() request that is admitted after the holder.
C4_PriorityAtEveryRelease ==
    \A h \in Reqs : Released(h) =>
        \A n \in Reqs : (kind[n] = "lock" /\ st[n] = "key" /\ Before(h, n)) =>
            \A v \in vipAtKey[h] : Before(v, n)

\* ---------------------------------------------------------------- C5
\* C5: a lockVip() request made when no request was holding or waiting, and
\* after which no other request was made, is, once it has lined up, on the
\* normal chain, and the lock it waits for is resolved (nothing else is
\* needed to admit it).
C5_IdleVipFallback ==
    \A r \in Reqs :
        (kind[r] = "lockVip" /\ idleAtCall[r] /\ r = nreq /\ st[r] = "line")
        => (chain[r] = "normal" /\ waitsFor[r] \in resolved)

\* ---------------------------------------------------------------- C6
\* some step of the mutex itself can be taken
CanStep ==
    \/ \E s \in Reqs : st[s] = "mtx" /\ Mutex_isUnlocked(_mtx, waitsFor[s])
    \/ \E s \in Reqs : st[s] = "line" /\ waitsFor[s] \in resolved
    \/ \E s \in Reqs : \E k \in 1..Len(keyRuns[s]) :
          \/ keyRuns[s][k].pc = "mtx" /\ Mutex_isUnlocked(_mtx, keyRuns[s][k].waitsFor)
          \/ keyRuns[s][k].pc = "vipLock" /\ keyRuns[s][k].waitsFor \in resolved

\* C6: a lockVip() request that is not admitted yet never depends on a new
\* request: either a step of the mutex is possible or some holder has still
\* to call its key.
C6_VipNeverBlocks ==
    \A r \in Reqs : (kind[r] = "lockVip" /\ st[r] \in {"mtx", "line"}) =>
        (CanStep \/ \E h \in Reqs : Holding(h))

\* ---------------------------------------------------------------- C7
\* the step is one of a repeated call of r's key (the call or what follows)
RepeatedKeyStep(r) ==
    \E k \in 2..Len(keyRuns'[r]) :
        Len(keyRuns[r]) < k \/ keyRuns'[r][k] # keyRuns[r][k]

\* C7: a repeated call of a key returned by lock() changes neither _count,
\* nor the VIP sentinel, nor the resolved locks, nor the admitted requests.
C7_KeyIdempotent ==
    [][\A r \in Reqs : (kind[r] = "lock" /\ RepeatedKeyStep(r)) =>
            /\ _count' = _count
            /\ _vipKey' = _vipKey /\ _vipLock' = _vipLock
            /\ resolved' = resolved
            /\ admitted' = admitted]_vars

\* ---------------------------------------------------------------- C8
\* the callers of the plain Mutex whose promiseOfUnlock can resolve
MAdmissible == {d \in Callers : mst[d] = "wait" /\ Mutex_isUnlocked(mutex, mwaitsFor[d])}

\* C8: a repeated call of an _unlock of the plain Mutex changes nothing:
\* the mutex is as before, nobody is admitted by it and nobody becomes
\* admissible by it.
C8_UnlockIdempotent ==
    [][\A c \in Callers : (munlocks[c] >= 1 /\ munlocks'[c] = munlocks[c] + 1) =>
            /\ mutex' = mutex
            /\ madmitted' = madmitted
            /\ MAdmissible' = MAdmissible]_vars

\* an _unlock was called twice, the next caller holds, the one after it waits
C8_Witness ==
    /\ munlocks[1] = 2 /\ MHolding(2)
    /\ mst[3] = "wait" /\ 3 \notin MAdmissible

\* ---------------------------------------------------------------- C9
\* C9: a lockVip() request made while the key of holder o is draining the
\* VIP chain is admitted before the request next in line behind o on the
\* normal chain.
C9_VipDuringDrain ==
    \A r \in Reqs : (kind[r] = "lockVip" /\ atDrainOf[r] # 0) =>
        \A n \in Reqs : (NextInLine(atDrainOf[r], n) /\ st[n] = "key") =>
            Before(r, n)

\* ---------------------------------------------------------------- C10
\* C10: lock() requests are admitted in the order in which they were made,
\* whatever lockVip() requests and key calls come in between.
C10_OrdinaryFifo ==
    \A a, b \in Reqs :
        (a < b /\ kind[a] = "lock" /\ kind[b] = "lock" /\ st[b] = "key") => Before(a, b)

\* three lock() requests admitted in order with a VIP request served between
C10_Witness ==
    /\ kind[1] = "lock" /\ kind[2] = "lock" /\ kind[3] = "lockVip" /\ kind[4] = "lock"
    /\ admitted = <<1, 3, 2, 4>>


\* ---------------------------------------------------------------- C11
\* C11: lockVip() requests are admitted in the order in which they were
\* made, whether they lined up on the VIP chain or on the normal chain.
C11_VipFifo ==
    \A a, b \in Reqs :
        (a < b /\ kind[a] = "lockVip" /\ kind[b] = "lockVip" /\ st[b] = "key")
        => Before(a, b)

\* a lockVip() request served from the normal chain, then two served from
\* the VIP chain in the order of their calls
C11_Witness ==
    \E a, b, c \in Reqs :
        /\ a < b /\ b < c
        /\ kind[a] = "lockVip" /\ kind[b] = "lockVip" /\ kind[c] = "lockVip"
        /\ chain[a] = "normal" /\ chain[b] = "vip" /\ chain[c] = "vip"
        /\ st[c] = "key"

\* ---------------------------------------------------------------- C12
\* a was admitted to the plain Mutex, and before b (if b was admitted at all)
MBefore(a, b) ==
    \E i \in 1..Len(madmitted) :
        /\ madmitted[i] = a
        /\ \A j \in 1..i : madmitted[j] # b

\* C12: the plain Mutex admits its callers in the order of their lock()
\* calls, also when an _unlock is called more than once.
C12_MutexFifo ==
    \A a, b \in Callers : (a < b /\ mst[b] = "unlock") => MBefore(a, b)

\* three callers admitted in the order of their calls, a fourth one waits
C12_Witness ==
    /\ madmitted = <<1, 2, 3>>
    /\ mst[4] = "wait"

\* ---------------------------------------------------------------- C13
\* C13: when every admitted request calls its key once in the end, every
\* lock() request is admitted in the end, whatever lockVip() requests are
\* made; and a lock() request next in line behind a lock() holder that has
\* called its key is kept waiting only while a step of the mutex is pending
\* or a request admitted from the VIP chain has not called its key.
C13_NoOrdinaryStarvation ==
    /\ \A r \in Reqs : (kind[r] = "lock") ~> (st[r] = "key")
    /\ [](\A o, n \in Reqs :
            (/\ kind[o] = "lock" /\ Released(o)
             /\ kind[n] = "lock" /\ NextInLine(o, n) /\ st[n] = "line")
            => (CanStep \/ \E v \in Reqs : Holding(v) /\ chain[v] = "vip"))

\* a lock() request admitted after the two VIP requests that arrived while
\* its predecessor was holding
C13_Witness ==
    /\ kind[1] = "lock" /\ kind[2] = "lock"
    /\ kind[3] = "lockVip" /\ kind[4] = "lockVip"
    /\ admitted = <<1, 3, 4, 2>>

\* ---------------------------------------------------------------- C14
\* C14: the promise of run()/runVip() is rejected exactly when the task
\* threw; the key is called once, in the finally block and not before; and
\* after the task is over, whether it returned or threw, the requests that
\* wait for it (the next one in line and, for run(), the VIP requests that
\* were waiting) are kept waiting only while a step of the mutex is pending
\* or some request holds.  The same for run() of the plain Mutex.
C14_RunReleasesOnFailure ==
    /\ \A r \in Reqs :
        IF task[r] \in {"fulfilled", "rejected"}
        THEN /\ (task[r] = "rejected") <=> (outcome[r] = "thrown")
             /\ Len(keyRuns[r]) = 1
             /\ \A n \in Reqs :
                    (/\ st[n] = "line"
                     /\ \/ waitsFor[n] = myLock(r)
                        \/ kind[r] = "lock" /\ n \in vipAtKey[r])
                    => (CanStep \/ \E h \in Reqs : Holding(h))
        ELSE Len(keyRuns[r]) = 0
    /\ \A c \in Callers :
        IF mtask[c] \in {"fulfilled", "rejected"}
        THEN /\ (mtask[c] = "rejected") <=> (moutcome[c] = "thrown")
             /\ munlocks[c] = 1
             /\ \A d \in Callers :
                    (mst[d] = "wait" /\ mwaitsFor[d] = newLock(c, 0)) => d \in MAdmissible
        ELSE munlocks[c] = 0

\* a run() task that threw, a runVip() task that was waiting for it and
\* threw too, and the next run() task admitted after both
C14_Witness ==
    \E r, v, n \in Reqs :
        /\ kind[r] = "lock" /\ task[r] = "rejected"
        /\ kind[v] = "lockVip" /\ v \in vipAtKey[r] /\ task[v] = "rejected"
        /\ NextInLine(r, n) /\ st[n] = "key"

\* ---------------------------------------------------------------- C15
\* the place of request r in the order o1, v1, .., vM, o2, .., oN
DemoRank(r) ==
    IF r = 1 THEN 0
    ELSE IF kind[r] = "lockVip" THEN r
    ELSE MaxReq + r

\* C15: with lock() requests o1..oN made first and lockVip() requests
\* v1..vM made before o1 calls its key (in one burst with the lock()
\* requests or while o1 holds), the requests are admitted in the order
\* o1, v1, .., vM, o2, .., oN.
C15_DemoOrder ==
    \A a, b \in 1..nreq :
        (DemoRank(a) < DemoRank(b) /\ st[b] = "key") => Before(a, b)

\* the demo: o1..o4 = 1..4, v1 = 5, v2 = 6
C15_Witness ==
    /\ \A r \in 1..4 : kind[r] = "lock"
    /\ kind[5] = "lockVip" /\ kind[6] = "lockVip"
    /\ admitted = <<1, 5, 6, 2, 3, 4>>

\* ---------------------------------------------------------------- C16
\* some step of a sell through the plain mutex, or of the mutex, can be taken
MutexSellCanStep ==
    \/ MAdmissible # {}
    \/ \E c \in Callers : mtask[c] = "run" /\ mst[c] = "unlock"
    \/ \E c \in Callers : mtask[c] \in {"loaded", "finally"}

\* C16: with sells run through run() of the plain mutex from a balance of
\* 0, the balance is always 50 times the number of sells that have saved,
\* a sell that is not over is never stuck, and when all N sells are over
\* the balance is 50 * N.
C16_NoLostUpdate ==
    /\ mbalance = Price * Cardinality({c \in Callers : mtask[c] \in {"finally", "fulfilled"}})
    /\ (\E c \in Callers : mtask[c] \in {"run", "loaded", "finally"}) => MutexSellCanStep
    /\ (\A c \in 1..ncallers : mtask[c] = "fulfilled") => mbalance = Price * ncallers

\* the four sells of the demo are over: $200
C16_Witness ==
    /\ ncallers = 4
    /\ \A c \in 1..4 : mtask[c] = "fulfilled"
    /\ mbalance = 200

\* ---------------------------------------------------------------- C17
\* some step of a sell through the VipMutex can be taken
SellCanStep ==
    \/ \E r \in Reqs : task[r] = "run" /\ st[r] = "key"
    \/ \E r \in Reqs : task[r] \in {"loaded", "finally"}

\* C17: with sells run through run() and runVip() of the VipMutex, a sell
\* that is not over is never stuck (a step of the mutex or of a sell can be
\* taken), and when all the sells are over the balance is 50 times their
\* number.
C17_MixedSellsComplete ==
    /\ (\E r \in Reqs : task[r] \in {"run", "loaded", "finally"})
            => (CanStep \/ SellCanStep)
    /\ (\A r \in 1..nreq : task[r] = "fulfilled") => balance = Price * nreq

\* ---------------------------------------------------------------- C18
\* C18: while a caller of the plain Mutex holds its _unlock without having
\* called it, no caller that made its lock() call after the holder's is
\* admitted: neither those in line behind it nor later ones.
C18_MutexMissingUnlock ==
    \A h, c \in Callers : (h < c /\ munlocks[h] = 0) => mst[c] # "unlock"

\* a holder that has not unlocked, with two callers in line behind it, and
\* its predecessor's _unlock called twice
C18_Witness ==
    /\ munlocks[1] = 2
    /\ MHolding(2)
    /\ mst[3] = "wait" /\ mst[4] = "wait"

\* ---------------------------------------------------------------- C19
\* C19: as long as a request holds the VipMutex (has its key and has not
\* called it), no step admits a request: the requests on the normal chain,
\* those on the VIP chain and those made later all stay unadmitted.
C19_MissingRelease ==
    [][(\E h \in Reqs : Holding(h)) => admitted' = admitted]_vars

\* a VIP holder admitted during a drain; a lock() and a lockVip() request
\* wait in line and a later lockVip() request waits for _mtx
C19_Witness ==
    \E h, o, v, w \in Reqs :
        /\ Holding(h) /\ chain[h] = "vip"
        /\ st[o] = "line" /\ chain[o] = "normal"
        /\ st[v] = "line" /\ chain[v] = "vip"
        /\ st[w] = "mtx" /\ h < w

releasing ==
    \E r \in Reqs : \E k \in 1..Len(keyRuns[r]) : keyRuns[r][k].pc # "done"

\* the lock() requests that wait in line or hold
ordinaryPending ==
    {r \in Reqs : kind[r] = "lock" /\ st[r] \in {"line", "key"} /\ ~Released(r)}

\* C21: whenever no release of a lock() key is in progress, _count is the
\* number of lock() requests that wait in line or hold; in particular it is
\* 0 when no request at all waits or holds.
C21_CountInvariant ==
    ~releasing =>
        /\ _count = Cardinality(ordinaryPending)
        /\ idle => _count = 0

\* ---------------------------------------------------------------- C22
\* the promises made by _initVipLock among the promises of S
Sentinels(S) == {p \in S : p.t = "vipLock"}

\* C22: a promise made by _initVipLock is resolved only by the step of a
\* lock() key that has acquired _mtx and calls _vipKey(), one promise per
\* such step and one that was not resolved before; whenever no key is
\* between that step and the end of its _getKey run, the current _vipKey
\* promise is unresolved and no request of the VIP chain is admitted.
C22_SentinelInvariant ==
    /\ [](draining = 0 => _vipKey \notin resolved)
    /\ [][(Sentinels(resolved') # Sentinels(resolved)) =>
            /\ _vipKey \notin resolved
            /\ Sentinels(resolved') = Sentinels(resolved) \cup {_vipKey}
            /\ \E r \in Reqs : \E k \in 1..Len(keyRuns[r]) :
                  /\ kind[r] = "lock"
                  /\ keyRuns[r][k].pc = "mtx" /\ keyRuns'[r][k].pc = "vipLock"
                  /\ keyRuns[r][k].waitsFor \in _mtx.unlocked
                  /\ newLock(r, k) \notin _mtx.unlocked]_vars
    /\ [][\A v \in Reqs :
            (chain[v] = "vip" /\ st[v] = "line" /\ st'[v] = "key") => draining # 0]_vars

\* a drain has served a VIP request and is over; a later VIP request waits
\* for the fresh, unresolved _vipLock
C22_Witness ==
    /\ nVipLocks = 1 /\ draining = 0
    /\ \E v, w \in Reqs :
          /\ chain[w] = "vip" /\ Released(w)
          /\ chain[v] = "vip" /\ st[v] = "line" /\ waitsFor[v] = _vipKey

\* ---------------------------------------------------------------- C23
\* C23: from the step in which a lock() key acquires _mtx and calls
\* _vipKey() until the step in which it calls _initVipLock(), no request
\* lines up on the VIP chain and _vipLock does not change, so the promise
\* the key awaits is the lock of the last request of the VIP chain all
\* through the wait.
C23_GuardStableTail ==
    /\ [](\A o \in Reqs : \A k \in 1..Len(keyRuns[o]) :
            keyRuns[o][k].pc = "vipLock" => keyRuns[o][k].waitsFor = _vipLock)
    /\ [][draining # 0 =>
            /\ \A r \in Reqs : chain'[r] = "vip" => chain[r] = "vip"
            /\ draining' # 0 => _vipLock' = _vipLock]_vars

\* a key waits for the VIP tail while a VIP request holds, and a lockVip()
\* request made meanwhile waits for _mtx right behind that key
C23_Witness ==
    \E o, v, w \in Reqs : \E k \in 1..Len(keyRuns[o]) :
        /\ keyRuns[o][k].pc = "vipLock"
        /\ chain[w] = "vip" /\ Holding(w)
        /\ st[v] = "mtx" /\ waitsFor[v] = newLock(o, k)

\* ---------------------------------------------------------------- C24
\* C24: the step in which a lockVip() request lines up is taken with the
\* guard _mtx acquired and releases it; the request joins the VIP chain
\* (behind _vipLock, which becomes its lock; _count and _lock unchanged)
\* exactly if _count > 0 in that step, and joins the normal chain otherwise
\* (behind _lock, which becomes its lock; _count incremented by 1, _vipLock
\* unchanged).
C24_VipRouting ==
    [][\A r \in Reqs : (st[r] = "mtx" /\ st'[r] = "line") =>
          /\ waitsFor[r] \in _mtx.unlocked
          /\ newLock(r, 0) \notin _mtx.unlocked
          /\ newLock(r, 0) \in _mtx'.unlocked
          /\ IF _count > 0
             THEN /\ chain'[r] = "vip"
                  /\ waitsFor'[r] = _vipLock /\ _vipLock' = myLock(r)
                  /\ _count' = _count /\ _lock' = _lock
             ELSE /\ chain'[r] = "normal"
                  /\ waitsFor'[r] = _lock /\ _lock' = myLock(r)
                  /\ _count' = _count + 1 /\ _vipLock' = _vipLock]_vars

\* both routes taken: a lockVip() request that found _count = 0 holds, one
\* that found _count = 1 waits on the VIP chain
C24_Witness ==
    \E a, b \in Reqs :
        /\ kind[a] = "lockVip" /\ chain[a] = "normal" /\ Holding(a)
        /\ kind[b] = "lockVip" /\ chain[b] = "vip" /\ st[b] = "line"
        /\ _count = 1

\* ---------------------------------------------------------------- C26
\* the step takes the k-th run of r's key from pc a to pc b
KeyRunStep(r, k, a, b) ==
    /\ k \in 1..Len(keyRuns[r])
    /\ keyRuns[r][k].pc = a
    /\ keyRuns'[r][k].pc = b

\* C26: every run of a lock() key goes through its steps in this order:
\* called (it waits for _mtx); _mtx acquired and the sentinel resolved, with
\* _count, its own lock and the guard left as they are; then, once the
\* awaited VIP tail is resolved, the sentinel re-armed, _count decremented,
\* its own lock resolved and _mtx released.  Hence a request that waits
\* for the lock of a lock() holder is admitted only after that holder's run
\* is over, and the guard taken by a run is released only with the
\* holder's lock resolved.
C26_ReleaseStepOrder ==
    /\ [][\A r \in Reqs : \A k \in 1..MaxKeyCalls :
            /\ (k \in 1..Len(keyRuns[r]) /\ keyRuns'[r][k].pc # keyRuns[r][k].pc)
                   => (KeyRunStep(r, k, "mtx", "vipLock") \/ KeyRunStep(r, k, "vipLock", "done"))
            /\ (kind[r] = "lock" /\ k = Len(keyRuns[r]) + 1 /\ k = Len(keyRuns'[r]))
                   => (keyRuns'[r][k].pc = "mtx" /\ resolved' = resolved /\ _count' = _count)
            /\ KeyRunStep(r, k, "mtx", "vipLock") =>
                   /\ keyRuns[r][k].waitsFor \in _mtx.unlocked
                   /\ newLock(r, k) \notin _mtx'.unlocked
                   /\ resolved' = resolved \cup {_vipKey}
                   /\ _vipKey' = _vipKey /\ _vipLock' = _vipLock
                   /\ keyRuns'[r][k].waitsFor = _vipLock
                   /\ _count' = _count
            /\ KeyRunStep(r, k, "vipLock", "done") =>
                   /\ _vipLock \in resolved
                   /\ newLock(r, k) \notin _mtx.unlocked
                   /\ _vipKey' \notin resolved' /\ _vipLock' = _vipKey' /\ _vipKey' # _vipKey
                   /\ _count' = _count - 1
                   /\ resolved' = resolved \cup {myLock(r)}
                   /\ newLock(r, k) \in _mtx'.unlocked]_vars
    /\ [](\A o, n \in Reqs :
            (kind[o] = "lock" /\ st[n] = "key" /\ waitsFor[n] = myLock(o))
                => (Released(o) /\ keyRuns[o][1].pc = "done"))
    /\ [](\A o \in Reqs : \A k \in 1..MaxKeyCalls :
            (kind[o] = "lock" /\ newLock(o, k) \in _mtx.unlocked) => myLock(o) \in resolved)

\* a lock() key has gone through all its steps: the VIP request that was
\* waiting has been served and the next lock() request is admitted
C26_Witness ==
    /\ kind[1] = "lock" /\ kind[2] = "lock" /\ kind[3] = "lockVip"
    /\ keyRuns[1] # <<>> /\ keyRuns[1][1].pc = "done"
    /\ admitted = <<1, 3, 2>>
    /\ _count = 1 /\ nVipLocks = 1

\* ---------------------------------------------------------------- C27
\* C27: a lock() call lines the request up on the normal chain in the call
\* itself (behind _lock, which becomes its lock) and increments _count by
\* 1; it changes neither _vipLock, nor _vipKey, nor the guard _mtx, nor
\* the resolved promises, and the request never waits for the guard.
C27_LockFrame ==
    /\ [][\A r \in Reqs : (kind[r] = "" /\ kind'[r] = "lock") =>
            /\ st'[r] = "line" /\ chain'[r] = "normal"
            /\ waitsFor'[r] = _lock /\ _lock' = myLock(r)
            /\ _count' = _count + 1
            /\ _vipLock' = _vipLock /\ _vipKey' = _vipKey
            /\ _mtx' = _mtx
            /\ resolved' = resolved]_vars
    /\ [](\A r \in Reqs : kind[r] = "lock" => st[r] \in {"line", "key"})

\* a lock() request made while a key waits for the VIP tail and after a
\* lockVip() request that is still waiting for the guard
C27_Witness ==
    \E r, v \in Reqs :
        /\ draining # 0
        /\ kind[v] = "lockVip" /\ st[v] = "mtx" /\ atDrainOf[v] = draining
        /\ v < r /\ kind[r] = "lock" /\ st[r] = "line"

\* ---------------------------------------------------------------- C28
\* the step is a call of v's key
KeyCallStep(v) == Len(keyRuns'[v]) = Len(keyRuns[v]) + 1

\* the lock() requests in line whose promise of a key waits for v's lock
OrdinaryBehind(v) ==
    {n \in Reqs : kind[n] = "lock" /\ st[n] = "line" /\ waitsFor[n] = myLock(v)}

\* what a call of a key returned by lockVip() does and leaves alone
VipKeyFrame(v) ==
    /\ resolved' = resolved \cup {myLock(v)}
    /\ _mtx' = _mtx
    /\ _count' = _count
    /\ _vipKey' = _vipKey /\ _vipLock' = _vipLock
    /\ _lock' = _lock

\* C28 (as stated): a call of a key returned by lockVip() resolves only the
\* request's own lock, leaves the guard, _count, the sentinel and _lock
\* unchanged, and no lock() request is waiting for the lock it resolves.
C28_VipReleaseFrame_Stated ==
    [][\A v \in Reqs : (kind[v] = "lockVip" /\ KeyCallStep(v)) =>
          (VipKeyFrame(v) /\ OrdinaryBehind(v) = {})]_vars

\* C28 (amended): a call of a key returned by lockVip() resolves only the
\* request's own lock and leaves the guard, _count, the sentinel and _lock
\* unchanged; a lock() request is waiting for the lock it resolves only if
\* the lockVip() request had lined up on the normal chain.
C28_VipReleaseFrame ==
    [][\A v \in Reqs : (kind[v] = "lockVip" /\ KeyCallStep(v)) =>
          /\ VipKeyFrame(v)
          /\ chain[v] = "vip" => OrdinaryBehind(v) = {}]_vars

\* a lockVip() request of the normal chain has released and the lock()
\* request behind it was admitted; a lockVip() request of the VIP chain has
\* released while another lock() request waits in line
C28_Witness ==
    \E a, n, v, m \in Reqs :
        /\ kind[a] = "lockVip" /\ chain[a] = "normal" /\ Released(a)
        /\ kind[n] = "lock" /\ waitsFor[n] = myLock(a) /\ st[n] = "key"
        /\ kind[v] = "lockVip" /\ chain[v] = "vip" /\ Released(v)
        /\ kind[m] = "lock" /\ st[m] = "line"

\* ---------------------------------------------------------------- C29
\* run k of o's key holds the guard and awaits a sentinel: the VIP chain
\* held no request when line 128 read _vipLock
EmptyDrain(o, k) ==
    /\ kind[o] = "lock"
    /\ k \in 1..Len(keyRuns[o])
    /\ keyRuns[o][k].pc = "vipLock"
    /\ keyRuns[o][k].waitsFor.t = "vipLock"

\* C29: a release that finds the VIP chain empty is never blocked (the
\* sentinel it awaits is resolved); while it runs no lockVip() request is
\* admitted; its last step decrements _count by exactly 1, resolves the
\* holder's own lock (which admits the next waiter of the normal chain),
\* installs a fresh unresolved sentinel and releases the guard.
C29_EmptyDrain ==
    /\ [](\A o \in Reqs : \A k \in 1..MaxKeyCalls :
              EmptyDrain(o, k) => keyRuns[o][k].waitsFor \in resolved)
    /\ [][\A o \in Reqs : \A k \in 1..MaxKeyCalls : EmptyDrain(o, k) =>
             /\ \A v \in Reqs : (kind[v] = "lockVip" /\ st'[v] = "key")
                                    => st[v] = "key"
             /\ keyRuns'[o][k].pc # "vipLock" =>
                   /\ keyRuns'[o][k].pc = "done"
                   /\ _count' = _count - 1
                   /\ resolved' = resolved \cup {myLock(o)}
                   /\ _vipKey' \notin resolved' /\ _vipKey' # _vipKey
                   /\ _vipLock' = _vipKey'
                   /\ newLock(o, k) \in _mtx'.unlocked
                   /\ admitted' = admitted]_vars
    /\ [](\A o, n \in Reqs :
              (kind[o] = "lock" /\ waitsFor[n] = myLock(o) /\ st[n] = "key")
                  => (Len(keyRuns[o]) > 0 /\ keyRuns[o][1].pc = "done"))

\* no lockVip() was ever made; the first lock() holder has released and the
\* second was admitted
C29_Witness ==
    /\ \A r \in Reqs : kind[r] # "lockVip"
    /\ kind[1] = "lock" /\ kind[2] = "lock"
    /\ Len(keyRuns[1]) = 1 /\ keyRuns[1][1].pc = "done"
    /\ admitted = <<1, 2>>
    /\ _count = 1 /\ nVipLocks = 1
    /\ _vipKey \notin resolved

\* ---------------------------------------------------------------- C25
\* the lockVip() requests made after lock() request o that were not yet
\* admitted when o's key was first called: on the VIP chain, or still
\* waiting for _mtx
PendingVips(o) ==
    IF kind[o] = "lock"
    THEN {v \in vipAtKey[o] \cup uncheckedAtKey[o] : v > o}
    ELSE {}

\* C25: a lockVip() request made after lock() request o and still pending
\* when o's key is called is admitted during the drain of that call: its
\* check (line 170) is served by the guard before the release, it lines up
\* on the VIP chain, it is admitted while o's key awaits _vipLock, and it
\* has been admitted when the release is done.
C25_PendingVipNotMissed ==
    /\ [][\A o, v \in Reqs :
             (v \in PendingVips(o) /\ st[v] = "mtx" /\ st'[v] # "mtx") =>
                 (keyRuns[o][1].pc = "mtx" /\ st'[v] = "line"
                    /\ chain'[v] = "vip")]_vars
    /\ [][\A o, v \in Reqs :
             (v \in PendingVips(o) /\ st[v] = "line" /\ st'[v] = "key") =>
                 draining = o]_vars
    /\ [](\A o, v \in Reqs :
             (v \in PendingVips(o) /\ keyRuns[o][1].pc = "done") =>
                 (st[v] = "key" /\ chain[v] = "vip"))

\* v had not made its check when o's key was called; the release is done
\* and v was admitted and has released
C25_Witness ==
    \E o, v \in Reqs :
        /\ kind[o] = "lock" /\ v > o
        /\ v \in uncheckedAtKey[o]
        /\ keyRuns[o][1].pc = "done"
        /\ st[v] = "key" /\ Released(v)

\* ---------------------------------------------------------------- C30
\* C30: the requests admitted while the key of o awaits _vipLock are
\* requests that waited on the VIP chain when that call acquired the guard,
\* and all of those have been admitted when the release is done; a
\* lockVip() request made during that await was not among them and leaves
\* line 168 only after the release has resolved o's own lock.
C30_BoundedOvertaking ==
    /\ [][(draining # 0 /\ admitted' # admitted) =>
             \E v \in vipAtGuard[draining] :
                 /\ chain[v] = "vip" /\ st[v] = "line"
                 /\ admitted' = Append(admitted, v)]_vars
    /\ [](\A o \in Reqs :
             (Len(keyRuns[o]) > 0 /\ keyRuns[o][1].pc = "done") =>
                 \A v \in vipAtGuard[o] : st[v] = "key")
    /\ [](\A r \in Reqs :
             (kind[r] = "lockVip" /\ atDrainOf[r] # 0) =>
                 /\ r \notin vipAtGuard[atDrainOf[r]]
                 /\ st[r] # "mtx" => myLock(atDrainOf[r]) \in resolved)
    /\ [][\A r \in Reqs :
             (kind[r] = "lockVip" /\ atDrainOf[r] # 0 /\ st[r] # "key"
                 /\ st'[r] = "key") => draining # atDrainOf[r]]_vars

\* v waited on the VIP chain when o's release acquired the guard and was
\* admitted; r was made during the drain and has made its check
C30_Witness ==
    \E o, v, r \in Reqs :
        /\ kind[o] = "lock" /\ vipAtGuard[o] = {v}
        /\ keyRuns[o][1].pc = "done"
        /\ st[v] = "key"
        /\ kind[r] = "lockVip" /\ atDrainOf[r] = o /\ st[r] \in {"line", "key"}

\* ---------------------------------------------------------------- C31
\* run k of o's key has acquired the guard and has not given it back
HoldsGuard(o, k) ==
    /\ k \in 1..Len(keyRuns[o])
    /\ keyRuns[o][k].pc = "vipLock"
    /\ newLock(o, k) \notin _mtx.unlocked

\* C31: while a request of the VIP chain holds the mutex, the key of a
\* lock() request holds the guard between lines 127 and 134 with its own
\* lock unresolved, and no request of the normal chain holds the mutex.
C31_VipHolderImpliesDrain ==
    \A v \in Reqs : (chain[v] = "vip" /\ Holding(v)) =>
        /\ \E o \in Reqs : \E k \in 1..MaxKeyCalls :
              /\ kind[o] = "lock"
              /\ HoldsGuard(o, k)
              /\ myLock(o) \notin resolved
        /\ \A n \in Reqs : chain[n] = "normal" => ~Holding(n)

\* a request of the VIP chain holds the mutex while a request of the
\* normal chain waits in line behind the releasing holder
C31_Witness ==
    \E v, o, n \in Reqs :
        /\ chain[v] = "vip" /\ Holding(v)
        /\ draining = o
        /\ chain[n] = "normal" /\ st[n] = "line" /\ waitsFor[n] = myLock(o)

\* ---------------------------------------------------------------- C32
\* the lock() requests that are queued, holding or releasing: made, and no
\* call of their key has reached line 131
ordinaryLive ==
    {r \in Reqs : /\ kind[r] = "lock"
                  /\ \A k \in 1..Len(keyRuns[r]) : keyRuns[r][k].pc # "done"}

\* C32: when every key is called at most once, _count is never negative
\* and never smaller than the number of lock() requests queued, holding or
\* releasing, and a lockVip() request lines up on the normal chain only if
\* there is no such lock() request.
C32_CountLowerBound ==
    /\ [](_count >= 0 /\ _count >= Cardinality(ordinaryLive))
    /\ [][\A v \in Reqs :
             (kind[v] = "lockVip" /\ st[v] = "mtx" /\ st'[v] = "line"
                 /\ chain'[v] = "normal") => ordinaryLive = {}]_vars

\* a lockVip() request made its check while the key of a lock() request
\* was waiting for the guard, and lined up on the VIP chain
C32_Witness ==
    \E o, v \in Reqs :
        /\ kind[o] = "lock" /\ Len(keyRuns[o]) = 1 /\ keyRuns[o][1].pc = "mtx"
        /\ v \in uncheckedAtKey[o]
        /\ st[v] = "line" /\ chain[v] = "vip"
        /\ _count = Cardinality(ordinaryLive)

\* ---------------------------------------------------------------- C33
\* a lockVip() request is between lines 168 and 173
checking == \E v \in Reqs : st[v] = "mtx"

\* the guard is free: the last lock made by _mtx.lock() is resolved
guardFree == Mutex_isUnlocked(_mtx, _mtx._currentLock)

\* C33: the check of a lockVip() request gives the guard back when it lines
\* up, on the VIP chain as well as on the normal chain; when every admitted
\* request calls its key in the end, every call of the key of a lock()
\* request gives the guard back in the end; and the guard is free whenever
\* no lockVip() check and no call of such a key is in progress.
C33_GuardGivenBack ==
    /\ [][\A v \in Reqs : (st[v] = "mtx" /\ st'[v] # "mtx") =>
             /\ st'[v] = "line" /\ chain'[v] \in {"vip", "normal"}
             /\ newLock(v, 0) \notin _mtx.unlocked
             /\ newLock(v, 0) \in _mtx'.unlocked]_vars
    /\ \A o \in Reqs : \A k \in 1..MaxKeyCalls :
          (kind[o] = "lock" /\ Len(keyRuns[o]) >= k)
              ~> (newLock(o, k) \in _mtx.unlocked)
    /\ []((~checking /\ ~releasing) => guardFree)

\* the guard has served a check of each branch and a release that admitted
\* a request of the VIP chain, and is free again
C33_Witness ==
    \E a, b, o \in Reqs :
        /\ kind[a] = "lockVip" /\ chain[a] = "normal"
        /\ kind[b] = "lockVip" /\ chain[b] = "vip" /\ Released(b)
        /\ kind[o] = "lock" /\ b \in vipAtGuard[o]
        /\ Len(keyRuns[o]) = 1 /\ keyRuns[o][1].pc = "done"
        /\ ~checking /\ ~releasing /\ guardFree
        /\ _mtx._currentLock # Unlocked

\* ---------------------------------------------------------------- C34
\* the sells made without a mutex
unsafeSells == {s \in Reqs : kind[s] = "" /\ task[s] # ""}

\* C34: a sell without the mutex writes the balance it loaded plus 50,
\* whatever the balance has become since; so when all the sells are over
\* the balance is at most 50 times the number of different balances the
\* sells loaded: less than 50 times the number of sells as soon as two of
\* them loaded the same balance.
C34_LostUpdate ==
    /\ [][\A s \in Reqs :
             (kind[s] = "" /\ task[s] = "loaded" /\ task'[s] = "fulfilled")
                 => balance' = loaded[s] + Price]_vars
    /\ []((unsafeSells # {} /\ \A s \in unsafeSells : task[s] = "fulfilled") =>
             /\ balance >= Price
             /\ balance <= Price * Cardinality({loaded[s] : s \in unsafeSells})
             /\ (\E s, t \in unsafeSells : s # t /\ loaded[s] = loaded[t])
                    => balance < Price * Cardinality(unsafeSells))

\* two sells from $0 are over and the balance is $50
C34_Witness ==
    /\ unsafeSells = {1, 2}
    /\ task[1] = "fulfilled" /\ task[2] = "fulfilled"
    /\ loaded[1] = 0 /\ loaded[2] = 0
    /\ balance = Price

\* ---------------------------------------------------------------- C35
\* C35: in the PriorityMutex of the README, when every _unlock is called at
\* most once, no two requests have their _unlock without having called it.
C35_PriorityMutexExclusion ==
    \A a, b \in Reqs : (Holding(a) /\ Holding(b)) => a = b

====
